---- MODULE Spec2Model ----
(***************************************************************************)
(* The SQL tokenizer of sqlparser/lex.go as a state machine.               *)
(*                                                                         *)
(* A character is its byte value (0..255); the lookahead lastChar is a     *)
(* uint16 that also takes the value EOFCHAR.  The input stream is the byte *)
(* sequence sql together with the reader's index tkn.InStream.  A []byte   *)
(* is a record that tells nil from an empty slice.  A token kind is either *)
(* a character code (int(ch), and 0 for end of input) or one of the named  *)
(* kinds of the grammar.                                                   *)
(***************************************************************************)
EXTENDS Integers, Sequences, FiniteSets, TLC

VARIABLES sql, tkn, ret

vars == <<sql, tkn, ret>>

(***************************************************************************)
(* Bounds of the model.                                                    *)
(***************************************************************************)
\* longest input over an alphabet of four characters
MaxLen == 5
\* longest input over an alphabet of five or six characters
MaxShort == 4
\* longest input over the mixed alphabet
MaxMixed == 3
\* longest run of placeholders
MaxRun == 11
\* how far Position may run past the input before pulls stop being modelled
MaxPastEOF == 2

(***************************************************************************)
(* Characters.                                                             *)
(***************************************************************************)
Printable ==
    <<" ", "!", "\"", "#", "$", "%", "&", "'", "(", ")", "*", "+", ",", "-",
      ".", "/", "0", "1", "2", "3", "4", "5", "6", "7", "8", "9", ":", ";",
      "<", "=", ">", "?", "@", "A", "B", "C", "D", "E", "F", "G", "H", "I",
      "J", "K", "L", "M", "N", "O", "P", "Q", "R", "S", "T", "U", "V", "W",
      "X", "Y", "Z", "[", "\\", "]", "^", "_", "backtick", "a", "b", "c", "d", "e",
      "f", "g", "h", "i", "j", "k", "l", "m", "n", "o", "p", "q", "r", "s",
      "t", "u", "v", "w", "x", "y", "z", "{", "|", "}", "~">>

\* the byte value of a printable ASCII character ("backtick" stands for the
\* grave accent, byte 96)
Ord ==
    [c \in {Printable[i] : i \in 1..Len(Printable)} |->
        31 + (CHOOSE i \in 1..Len(Printable) : Printable[i] = c)]

\* the bytes of a text written character by character
B(cs) == [i \in 1..Len(cs) |-> Ord[cs[i]]]

\* '\t', '\n' and '\r'
TAB == 9
LF == 10
CR == 13

EOFCHAR == 256

\* byte(ch): the conversion of a uint16 to a byte
byte(ch) == ch % 256

\* a nil []byte, and a non-nil one
nil == [isNil |-> TRUE, bytes |-> <<>>]
Bytes(b) == [isNil |-> FALSE, bytes |-> b]

\* token kinds: int(ch) for a character (0 is end of input), or a named kind
int(ch) == [named |-> FALSE, name |-> "", code |-> ch]
Tok(name) == [named |-> TRUE, name |-> name, code |-> 0]

LEX_ERROR == Tok("LEX_ERROR")
ID == Tok("ID")
STRING_ == Tok("STRING")
NUMBER == Tok("NUMBER")
VALUE_ARG == Tok("VALUE_ARG")
COMMENT == Tok("COMMENT")
NE == Tok("NE")
LE == Tok("LE")
GE == Tok("GE")
NULL_SAFE_EQUAL == Tok("NULL_SAFE_EQUAL")

keywordEntries == {
    <<B(<<"s","e","l","e","c","t">>), "SELECT">>,
    <<B(<<"i","n","s","e","r","t">>), "INSERT">>,
    <<B(<<"u","p","d","a","t","e">>), "UPDATE">>,
    <<B(<<"d","e","l","e","t","e">>), "DELETE">>,
    <<B(<<"f","r","o","m">>), "FROM">>,
    <<B(<<"w","h","e","r","e">>), "WHERE">>,
    <<B(<<"g","r","o","u","p">>), "GROUP">>,
    <<B(<<"h","a","v","i","n","g">>), "HAVING">>,
    <<B(<<"o","r","d","e","r">>), "ORDER">>,
    <<B(<<"b","y">>), "BY">>,
    <<B(<<"l","i","m","i","t">>), "LIMIT">>,
    <<B(<<"f","o","r">>), "FOR">>,
    <<B(<<"u","n","i","o","n">>), "UNION">>,
    <<B(<<"a","l","l">>), "ALL">>,
    <<B(<<"m","i","n","u","s">>), "MINUS">>,
    <<B(<<"e","x","c","e","p","t">>), "EXCEPT">>,
    <<B(<<"i","n","t","e","r","s","e","c","t">>), "INTERSECT">>,
    <<B(<<"j","o","i","n">>), "JOIN">>,
    <<B(<<"f","u","l","l">>), "FULL">>,
    <<B(<<"s","t","r","a","i","g","h","t","_","j","o","i","n">>), "STRAIGHT_JOIN">>,
    <<B(<<"l","e","f","t">>), "LEFT">>,
    <<B(<<"r","i","g","h","t">>), "RIGHT">>,
    <<B(<<"i","n","n","e","r">>), "INNER">>,
    <<B(<<"o","u","t","e","r">>), "OUTER">>,
    <<B(<<"c","r","o","s","s">>), "CROSS">>,
    <<B(<<"n","a","t","u","r","a","l">>), "NATURAL">>,
    <<B(<<"u","s","e">>), "USE">>,
    <<B(<<"f","o","r","c","e">>), "FORCE">>,
    <<B(<<"o","n">>), "ON">>,
    <<B(<<"i","n","t","o">>), "INTO">>,
    <<B(<<"d","i","s","t","i","n","c","t">>), "DISTINCT">>,
    <<B(<<"c","a","s","e">>), "CASE">>,
    <<B(<<"w","h","e","n">>), "WHEN">>,
    <<B(<<"t","h","e","n">>), "THEN">>,
    <<B(<<"e","l","s","e">>), "ELSE">>,
    <<B(<<"e","n","d">>), "END">>,
    <<B(<<"a","s">>), "AS">>,
    <<B(<<"a","n","d">>), "AND">>,
    <<B(<<"o","r">>), "OR">>,
    <<B(<<"n","o","t">>), "NOT">>,
    <<B(<<"e","x","i","s","t","s">>), "EXISTS">>,
    <<B(<<"i","n">>), "IN">>,
    <<B(<<"i","s">>), "IS">>,
    <<B(<<"l","i","k","e">>), "LIKE">>,
    <<B(<<"b","e","t","w","e","e","n">>), "BETWEEN">>,
    <<B(<<"n","u","l","l">>), "NULL">>,
    <<B(<<"a","s","c">>), "ASC">>,
    <<B(<<"d","e","s","c">>), "DESC">>,
    <<B(<<"v","a","l","u","e","s">>), "VALUES">>,
    <<B(<<"d","u","p","l","i","c","a","t","e">>), "DUPLICATE">>,
    <<B(<<"k","e","y">>), "KEY">>,
    <<B(<<"d","e","f","a","u","l","t">>), "DEFAULT">>,
    <<B(<<"s","e","t">>), "SET">>,
    <<B(<<"l","o","c","k">>), "LOCK">>,
    <<B(<<"c","r","e","a","t","e">>), "CREATE">>,
    <<B(<<"a","l","t","e","r">>), "ALTER">>,
    <<B(<<"r","e","n","a","m","e">>), "RENAME">>,
    <<B(<<"d","r","o","p">>), "DROP">>,
    <<B(<<"t","a","b","l","e">>), "TABLE">>,
    <<B(<<"i","n","d","e","x">>), "INDEX">>,
    <<B(<<"v","i","e","w">>), "VIEW">>,
    <<B(<<"t","o">>), "TO">>,
    <<B(<<"i","g","n","o","r","e">>), "IGNORE">>,
    <<B(<<"i","f">>), "IF">>,
    <<B(<<"u","n","i","q","u","e">>), "UNIQUE">>,
    <<B(<<"u","s","i","n","g">>), "USING">>,
    <<B(<<"b","e","g","i","n">>), "BEGIN">>,
    <<B(<<"r","o","l","l","b","a","c","k">>), "ROLLBACK">>,
    <<B(<<"c","o","m","m","i","t">>), "COMMIT">>,
    <<B(<<"n","a","m","e","s">>), "NAMES">>,
    <<B(<<"r","e","p","l","a","c","e">>), "REPLACE">>,
    <<B(<<"s","t","a","r","t">>), "START">>,
    <<B(<<"t","r","a","n","s","a","c","t","i","o","n">>), "TRANSACTION">>,
    <<B(<<"i","s","o","l","a","t","i","o","n">>), "ISOLATION">>,
    <<B(<<"l","e","v","e","l">>), "LEVEL">>,
    <<B(<<"r","e","p","e","a","t","a","b","l","e">>), "REPEATABLE">>,
    <<B(<<"r","e","a","d">>), "READ">>,
    <<B(<<"c","o","m","m","i","t","t","e","d">>), "COMMITTED">>,
    <<B(<<"u","n","c","o","m","m","i","t","t","e","d">>), "UNCOMMITTED">>,
    <<B(<<"s","e","r","i","a","l","i","z","a","b","l","e">>), "SERIALIZABLE">>,
    <<B(<<"c","o","l","l","a","t","e">>), "COLLATE">>,
    <<B(<<"o","f","f","s","e","t">>), "OFFSET">>,
    <<B(<<"c","h","a","r","s","e","t">>), "CHARSET">>,
    <<B(<<"c","h","a","r","a","c","t","e","r">>), "CHARACTER">>,
    <<B(<<"c","o","l","l","a","t","i","o","n">>), "COLLATION">>,
    <<B(<<"s","h","o","w">>), "SHOW">>,
    <<B(<<"d","e","s","c","r","i","b","e">>), "DESCRIBE">>,
    <<B(<<"e","x","p","l","a","i","n">>), "EXPLAIN">>,
    <<B(<<"v","a","r","i","a","b","l","e","s">>), "VARIABLES">>,
    <<B(<<"s","t","a","t","u","s">>), "STATUS">>,
    <<B(<<"d","a","t","a","b","a","s","e","s">>), "DATABASES">>,
    <<B(<<"d","a","t","a","b","a","s","e">>), "DATABASE">>,
    <<B(<<"t","a","b","l","e","s">>), "TABLES">>,
    <<B(<<"c","o","l","u","m","n","s">>), "COLUMNS">>,
    <<B(<<"p","r","o","c","e","d","u","r","e">>), "PROCEDURE">>,
    <<B(<<"f","u","n","c","t","i","o","n">>), "FUNCTION">>,
    <<B(<<"e","n","g","i","n","e","s">>), "ENGINES">>,
    <<B(<<"s","t","o","r","a","g","e">>), "STORAGE">>,
    <<B(<<"p","l","u","g","i","n","s">>), "PLUGINS">>,
    <<B(<<"p","r","o","c","e","s","s","l","i","s","t">>), "PROCESSLIST">>,
    <<B(<<"i","n","d","e","x","e","s">>), "INDEXES">>,
    <<B(<<"k","e","y","s">>), "KEYS">>,
    <<B(<<"t","r","i","g","g","e","r","s">>), "TRIGGERS">>,
    <<B(<<"t","r","i","g","g","e","r">>), "TRIGGER">>,
    <<B(<<"s","l","a","v","e">>), "SLAVE">>,
    <<B(<<"s","e","s","s","i","o","n">>), "SESSION">>,
    <<B(<<"g","l","o","b","a","l">>), "GLOBAL">>,
    <<B(<<"a","r","m","s","c","i","i","8">>), "ARMSCII8">>,
    <<B(<<"a","s","c","i","i">>), "ASCII">>,
    <<B(<<"b","i","g","5">>), "BIG5">>,
    <<B(<<"b","i","n","a","r","y">>), "BINARY">>,
    <<B(<<"c","p","1","2","5","0">>), "CP1250">>,
    <<B(<<"c","p","1","2","5","1">>), "CP1251">>,
    <<B(<<"c","p","1","2","5","6">>), "CP1256">>,
    <<B(<<"c","p","1","2","5","7">>), "CP1257">>,
    <<B(<<"c","p","8","5","0">>), "CP850">>,
    <<B(<<"c","p","8","5","2">>), "CP852">>,
    <<B(<<"c","p","8","6","6">>), "CP866">>,
    <<B(<<"c","p","9","3","2">>), "CP932">>,
    <<B(<<"d","e","c","8">>), "DEC8">>,
    <<B(<<"e","u","c","j","p","m","s">>), "EUCJPMS">>,
    <<B(<<"e","u","c","k","r">>), "EUCKR">>,
    <<B(<<"g","b","2","3","1","2">>), "GB2312">>,
    <<B(<<"g","b","k">>), "GBK">>,
    <<B(<<"g","e","o","s","t","d","8">>), "GEOSTD8">>,
    <<B(<<"g","r","e","e","k">>), "GREEK">>,
    <<B(<<"h","e","b","r","e","w">>), "HEBREW">>,
    <<B(<<"h","p","8">>), "HP8">>,
    <<B(<<"k","e","y","b","c","s","2">>), "KEYBCS2">>,
    <<B(<<"k","o","i","8","r">>), "KOI8R">>,
    <<B(<<"k","o","i","8","u">>), "KOI8U">>,
    <<B(<<"l","a","t","i","n","1">>), "LATIN1">>,
    <<B(<<"l","a","t","i","n","2">>), "LATIN2">>,
    <<B(<<"l","a","t","i","n","5">>), "LATIN5">>,
    <<B(<<"l","a","t","i","n","7">>), "LATIN7">>,
    <<B(<<"m","a","c","c","e">>), "MACCE">>,
    <<B(<<"m","a","c","r","o","m","a","n">>), "MACROMAN">>,
    <<B(<<"s","j","i","s">>), "SJIS">>,
    <<B(<<"s","w","e","7">>), "SWE7">>,
    <<B(<<"t","i","s","6","2","0">>), "TIS620">>,
    <<B(<<"u","c","s","2">>), "UCS2">>,
    <<B(<<"u","j","i","s">>), "EJIS">>,
    <<B(<<"u","t","f","1","6">>), "UTF16">>,
    <<B(<<"u","t","f","1","6","l","e">>), "UTF16LE">>,
    <<B(<<"u","t","f","3","2">>), "UTF32">>,
    <<B(<<"u","t","f","8">>), "UTF8">>,
    <<B(<<"u","t","f","8","m","b","4">>), "UTF8MB4">>,
    <<B(<<"a","d","m","i","n">>), "ADMIN">>,
    <<B(<<"h","e","l","p">>), "HELP">>
}

keywords ==
    [k \in {e[1] : e \in keywordEntries} |->
        Tok((CHOOSE e \in keywordEntries : e[1] = k)[2])]

isLetter(ch) ==
    \/ Ord["a"] <= ch /\ ch <= Ord["z"]
    \/ Ord["A"] <= ch /\ ch <= Ord["Z"]
    \/ ch = Ord["_"]
    \/ ch = Ord["@"]

digitVal(ch) ==
    IF Ord["0"] <= ch /\ ch <= Ord["9"] THEN ch - Ord["0"]
    ELSE IF Ord["a"] <= ch /\ ch <= Ord["f"] THEN ch - Ord["a"] + 10
    ELSE IF Ord["A"] <= ch /\ ch <= Ord["F"] THEN ch - Ord["A"] + 10
    ELSE 16

isDigit(ch) == Ord["0"] <= ch /\ ch <= Ord["9"]

\* bytes.ToLower on ASCII text
ToLower(b) ==
    [i \in 1..Len(b) |->
        IF Ord["A"] <= b[i] /\ b[i] <= Ord["Z"] THEN b[i] + 32 ELSE b[i]]

\* the decimal digits fmt prints for %d and %v of a non-negative int
RECURSIVE Itoa(_)
Itoa(n) ==
    IF n < 10 THEN <<Ord["0"] + n>>
    ELSE Append(Itoa(n \div 10), Ord["0"] + (n % 10))

(***************************************************************************)
(* sqltypes.SQLDecodeMap: the byte an escape character decodes to, and     *)
(* DONTESCAPE for a character that has no escape.                          *)
(***************************************************************************)
DONTESCAPE == 255

SQLDecodeMap ==
    [c \in 0..255 |->
        CASE c = Ord["0"] -> 0
          [] c = Ord["'"] -> Ord["'"]
          [] c = Ord["\""] -> Ord["\""]
          [] c = Ord["b"] -> 8
          [] c = Ord["n"] -> 10
          [] c = Ord["r"] -> 13
          [] c = Ord["t"] -> 9
          [] c = Ord["Z"] -> 26
          [] c = Ord["\\"] -> Ord["\\"]
          [] OTHER -> DONTESCAPE]

(***************************************************************************)
(* The character reader.                                                   *)
(***************************************************************************)
\* what a sub-scanner returns: the tokenizer after it, the kind and the text
Return(t, typ, val) == [t |-> t, typ |-> typ, val |-> val]

\* a tokenizer together with the buffer of the token being built
Buf(t, buffer) == [t |-> t, buffer |-> buffer]

next(t) ==
    IF t.InStream < Len(sql)
    THEN [t EXCEPT !.lastChar = sql[t.InStream + 1],
                   !.InStream = @ + 1,
                   !.Position = @ + 1]
    ELSE [t EXCEPT !.lastChar = EOFCHAR,
                   !.Position = @ + 1]

\* Next(buffer): panics at end of input
Next(s) ==
    IF s.t.lastChar = EOFCHAR
    THEN [s EXCEPT !.t.panic = TRUE]
    ELSE Buf(next(s.t), Append(s.buffer, byte(s.t.lastChar)))

RECURSIVE skipBlank(_)
skipBlank(t) ==
    IF t.lastChar = Ord[" "] \/ t.lastChar = LF \/ t.lastChar = CR \/ t.lastChar = TAB
    THEN skipBlank(next(t))
    ELSE t

(***************************************************************************)
(* The sub-scanners.                                                       *)
(***************************************************************************)
RECURSIVE scanIdentifierLoop(_)
scanIdentifierLoop(s) ==
    IF isLetter(s.t.lastChar) \/ isDigit(s.t.lastChar)
    THEN scanIdentifierLoop(Buf(next(s.t), Append(s.buffer, byte(s.t.lastChar))))
    ELSE s

\* the keyword lookup of scanIdentifier: t and buffer after the loop
scanIdentifierLookup(t, buffer, lowered) ==
    IF lowered \in DOMAIN keywords
    THEN Return(t, keywords[lowered], Bytes(lowered))
    ELSE Return(t, ID, Bytes(buffer))

\* scanIdentifier looking the spelling up as it is written
scanIdentifierCased(s) == scanIdentifierLookup(s.t, s.buffer, s.buffer)

\* the end of scanIdentifier, after the loop
scanIdentifierEnd(s) == scanIdentifierLookup(s.t, s.buffer, ToLower(s.buffer))

scanIdentifier(t) ==
    scanIdentifierEnd(scanIdentifierLoop(Buf(next(t), <<byte(t.lastChar)>>)))

\* the loop of scanBindVar stopping at a dot
RECURSIVE scanBindVarLoopNoDot(_)
scanBindVarLoopNoDot(s) ==
    IF isLetter(s.t.lastChar) \/ isDigit(s.t.lastChar)
    THEN scanBindVarLoopNoDot(Buf(next(s.t), Append(s.buffer, byte(s.t.lastChar))))
    ELSE s

RECURSIVE scanBindVarLoop(_)
scanBindVarLoop(s) ==
    IF isLetter(s.t.lastChar) \/ isDigit(s.t.lastChar) \/ s.t.lastChar = Ord["."]
    THEN scanBindVarLoop(Buf(next(s.t), Append(s.buffer, byte(s.t.lastChar))))
    ELSE s

\* the end of scanBindVar, after the loop
scanBindVarEnd(s) ==
    IF Len(s.buffer) = 1
    THEN Return(s.t, LEX_ERROR, Bytes(s.buffer))
    ELSE Return(s.t, VALUE_ARG, Bytes(s.buffer))

scanBindVar(t) == scanBindVarEnd(scanBindVarLoop(Buf(next(t), <<byte(t.lastChar)>>)))

RECURSIVE scanMantissa(_, _)
scanMantissa(base, s) ==
    IF ~s.t.panic /\ digitVal(s.t.lastChar) < base
    THEN scanMantissa(base, Next(s))
    ELSE s

\* label exit of scanNumber
scanNumberExit(s) == Return(s.t, NUMBER, Bytes(s.buffer))

\* the optional sign of the exponent, after the e
scanNumberSign(s) ==
    IF s.t.lastChar = Ord["+"] \/ s.t.lastChar = Ord["-"]
    THEN Next(s)
    ELSE s

\* label exponent of scanNumber
scanNumberExponent(s) ==
    IF s.t.lastChar = Ord["e"] \/ s.t.lastChar = Ord["E"]
    THEN scanNumberExit(scanMantissa(10, scanNumberSign(Next(s))))
    ELSE scanNumberExit(s)

\* label fraction of scanNumber
scanNumberFraction(s) ==
    IF s.t.lastChar = Ord["."]
    THEN scanNumberExponent(scanMantissa(10, Next(s)))
    ELSE scanNumberExponent(s)

\* the end of the octal branch: s after the digits
scanNumberOctalEnd(s, seenDecimalDigit) ==
    IF s.t.lastChar = Ord["."] \/ s.t.lastChar = Ord["e"] \/ s.t.lastChar = Ord["E"]
    THEN scanNumberFraction(s)
    ELSE IF seenDecimalDigit
         THEN Return(s.t, LEX_ERROR, Bytes(s.buffer))
         ELSE scanNumberExit(s)

\* the end of the octal branch rejecting a decimal digit before it looks for
\* a fraction
scanNumberOctalEndStrict(s, seenDecimalDigit) ==
    IF seenDecimalDigit
    THEN Return(s.t, LEX_ERROR, Bytes(s.buffer))
    ELSE IF s.t.lastChar = Ord["."] \/ s.t.lastChar = Ord["e"] \/ s.t.lastChar = Ord["E"]
         THEN scanNumberFraction(s)
         ELSE scanNumberExit(s)

\* the octal branch rejecting a decimal digit before it looks for a fraction
scanNumberOctalStrict(s) ==
    IF s.t.lastChar = Ord["8"] \/ s.t.lastChar = Ord["9"]
    THEN scanNumberOctalEndStrict(scanMantissa(10, s), TRUE)
    ELSE scanNumberOctalEndStrict(s, FALSE)

\* the octal int or float branch of scanNumber: s after the octal digits
scanNumberOctal(s) ==
    IF s.t.lastChar = Ord["8"] \/ s.t.lastChar = Ord["9"]
    THEN scanNumberOctalEnd(scanMantissa(10, s), TRUE)
    ELSE scanNumberOctalEnd(s, FALSE)

\* scanNumber after the leading 0
scanNumberZero(s) ==
    IF s.t.lastChar = Ord["x"] \/ s.t.lastChar = Ord["X"]
    THEN scanNumberExit(scanMantissa(16, Next(s)))
    ELSE scanNumberOctal(scanMantissa(8, s))

\* scanNumber leaving the decimal point of the leading-dot form out of the text
scanNumberNoPoint(t, seenDecimalPoint) ==
    IF seenDecimalPoint
    THEN scanNumberExponent(scanMantissa(10, Buf(t, <<>>)))
    ELSE IF t.lastChar = Ord["0"]
         THEN scanNumberZero(Next(Buf(t, <<>>)))
         ELSE scanNumberFraction(scanMantissa(10, Buf(t, <<>>)))

scanNumber(t, seenDecimalPoint) ==
    IF seenDecimalPoint
    THEN scanNumberExponent(scanMantissa(10, Buf(t, <<Ord["."]>>)))
    ELSE IF t.lastChar = Ord["0"]
         THEN scanNumberZero(Next(Buf(t, <<>>)))
         ELSE scanNumberFraction(scanMantissa(10, Buf(t, <<>>)))

\* the character a backslash followed by lastChar stands for
decodeEscapeRaw(lastChar) == lastChar

decodeEscape(lastChar) ==
    IF SQLDecodeMap[byte(lastChar)] = DONTESCAPE
    THEN lastChar
    ELSE SQLDecodeMap[byte(lastChar)]

RECURSIVE scanStringLoop(_, _, _)

\* the end of one round of the loop: ch is what the round read, t follows it
scanStringWrite(t, buffer, ch, delim, typ) ==
    IF ch = EOFCHAR
    THEN Return(t, LEX_ERROR, Bytes(buffer))
    ELSE scanStringLoop(Buf(t, Append(buffer, byte(ch))), delim, typ)

\* one round of the loop that looks a closed identifier up in the keywords
scanStringRoundKeyword(t, buffer, ch, delim, typ) ==
    IF ch = delim
    THEN IF t.lastChar = delim
         THEN scanStringWrite(next(t), buffer, ch, delim, typ)
         ELSE IF typ = ID
         THEN scanIdentifierLookup(t, buffer, ToLower(buffer))
         ELSE Return(t, typ, Bytes(buffer))
    ELSE IF ch = Ord["\\"]
    THEN IF t.lastChar = EOFCHAR
         THEN Return(t, LEX_ERROR, Bytes(buffer))
         ELSE scanStringWrite(next(t), buffer, decodeEscape(t.lastChar), delim, typ)
    ELSE scanStringWrite(t, buffer, ch, delim, typ)

\* one round of the loop: ch has been read and t.lastChar follows it
scanStringRound(t, buffer, ch, delim, typ) ==
    IF ch = delim
    THEN IF t.lastChar = delim
         THEN scanStringWrite(next(t), buffer, ch, delim, typ)
         ELSE Return(t, typ, Bytes(buffer))
    ELSE IF ch = Ord["\\"]
    THEN IF t.lastChar = EOFCHAR
         THEN Return(t, LEX_ERROR, Bytes(buffer))
         ELSE scanStringWrite(next(t), buffer, decodeEscape(t.lastChar), delim, typ)
    ELSE scanStringWrite(t, buffer, ch, delim, typ)

scanStringLoop(s, delim, typ) ==
    scanStringRound(next(s.t), s.buffer, s.t.lastChar, delim, typ)

scanString(t, delim, typ) == scanStringLoop(Buf(t, <<>>), delim, typ)

\* the COMMENT token of the text in the buffer
commentToken(s) == Return(s.t, COMMENT, Bytes(s.buffer))

\* scanCommentType1 without the test for end of input
RECURSIVE scanCommentType1LoopNoEOF(_)
scanCommentType1LoopNoEOF(s) ==
    IF s.t.panic THEN s
    ELSE IF s.t.lastChar = LF THEN Next(s)
    ELSE scanCommentType1LoopNoEOF(Next(s))

RECURSIVE scanCommentType1Loop(_)
scanCommentType1Loop(s) ==
    IF ~s.t.panic /\ s.t.lastChar # EOFCHAR
    THEN IF s.t.lastChar = LF
         THEN Next(s)
         ELSE scanCommentType1Loop(Next(s))
    ELSE s

scanCommentType1(t, prefix) == commentToken(scanCommentType1Loop(Buf(t, prefix)))

RECURSIVE scanCommentType2LoopOpen(_)

\* after a star, in the loop that takes end of input for the end of the comment
scanCommentType2StarOpen(s) ==
    IF s.t.lastChar = Ord["/"]
    THEN commentToken(Next(s))
    ELSE scanCommentType2LoopOpen(s)

\* scanCommentType2 taking end of input for the end of the comment
scanCommentType2LoopOpen(s) ==
    IF s.t.panic
    THEN Return(s.t, LEX_ERROR, Bytes(s.buffer))
    ELSE IF s.t.lastChar = Ord["*"]
    THEN scanCommentType2StarOpen(Next(s))
    ELSE IF s.t.lastChar = EOFCHAR
    THEN commentToken(s)
    ELSE scanCommentType2LoopOpen(Next(s))

RECURSIVE scanCommentType2Loop(_)

\* after a star: the comment ends at a slash
scanCommentType2Star(s) ==
    IF s.t.lastChar = Ord["/"]
    THEN commentToken(Next(s))
    ELSE scanCommentType2Loop(s)

scanCommentType2Loop(s) ==
    IF s.t.panic
    THEN Return(s.t, LEX_ERROR, Bytes(s.buffer))
    ELSE IF s.t.lastChar = Ord["*"]
    THEN scanCommentType2Star(Next(s))
    ELSE IF s.t.lastChar = EOFCHAR
    THEN Return(s.t, LEX_ERROR, Bytes(s.buffer))
    ELSE scanCommentType2Loop(Next(s))

scanCommentType2(t) == scanCommentType2Loop(Buf(t, B(<<"/", "*">>)))

(***************************************************************************)
(* Scan, Lex and Error.                                                    *)
(***************************************************************************)
\* case '?' of Scan: the next positional placeholder
ScanPlaceholderStale(t) ==
    Return([t EXCEPT !.posVarIndex = @ + 1], VALUE_ARG,
           Bytes(B(<<":", "v">>) \o Itoa(t.posVarIndex)))

ScanPlaceholder(t) ==
    Return([t EXCEPT !.posVarIndex = @ + 1], VALUE_ARG,
           Bytes(B(<<":", "v">>) \o Itoa(t.posVarIndex + 1)))

\* case '<' of Scan after <=, not looking for the > of <=>
ScanLessEqualShort(t) == Return(t, LE, nil)

\* case '<' of Scan after <=
ScanLessEqual(t) ==
    IF t.lastChar = Ord[">"]
    THEN Return(next(t), NULL_SAFE_EQUAL, nil)
    ELSE Return(t, LE, nil)

\* the inner switch of Scan: ch has been consumed, t.lastChar follows it
ScanSwitch(t, ch) ==
    IF ch = EOFCHAR THEN Return(t, int(0), nil)
    ELSE IF ch \in {Ord["="], Ord[","], Ord[";"], Ord["("], Ord[")"], Ord["+"],
                    Ord["*"], Ord["%"], Ord["&"], Ord["|"], Ord["^"], Ord["~"]}
    THEN Return(t, int(ch), nil)
    ELSE IF ch = Ord["?"]
    THEN ScanPlaceholder(t)
    ELSE IF ch = Ord["."]
    THEN IF isDigit(t.lastChar)
         THEN scanNumber(t, TRUE)
         ELSE Return(t, int(ch), nil)
    ELSE IF ch = Ord["/"]
    THEN IF t.lastChar = Ord["/"]
         THEN scanCommentType1(next(t), B(<<"/", "/">>))
         ELSE IF t.lastChar = Ord["*"]
         THEN scanCommentType2(next(t))
         ELSE Return(t, int(ch), nil)
    ELSE IF ch = Ord["-"]
    THEN IF t.lastChar = Ord["-"]
         THEN scanCommentType1(next(t), B(<<"-", "-">>))
         ELSE Return(t, int(ch), nil)
    ELSE IF ch = Ord["<"]
    THEN IF t.lastChar = Ord[">"]
         THEN Return(next(t), NE, nil)
         ELSE IF t.lastChar = Ord["="]
         THEN ScanLessEqual(next(t))
         ELSE Return(t, int(ch), nil)
    ELSE IF ch = Ord[">"]
    THEN IF t.lastChar = Ord["="]
         THEN Return(next(t), GE, nil)
         ELSE Return(t, int(ch), nil)
    ELSE IF ch = Ord["!"]
    THEN IF t.lastChar = Ord["="]
         THEN Return(next(t), NE, nil)
         ELSE Return(t, LEX_ERROR, Bytes(B(<<"!">>)))
    ELSE IF ch = Ord["'"] \/ ch = Ord["\""]
    THEN scanString(t, ch, STRING_)
    ELSE IF ch = Ord["backtick"]
    THEN scanString(t, ch, ID)
    ELSE Return(t, LEX_ERROR, Bytes(<<byte(ch)>>))

\* the outer switch of Scan, leaving the character it switches on unconsumed
ScanDispatchPeek(t) ==
    IF isLetter(t.lastChar) THEN scanIdentifier(t)
    ELSE IF isDigit(t.lastChar) THEN scanNumber(t, FALSE)
    ELSE IF t.lastChar = Ord[":"] THEN scanBindVar(t)
    ELSE ScanSwitch(t, t.lastChar)

\* the outer switch of Scan, clearing the lookahead at the end of the input
ScanDispatchClearing(t) ==
    IF isLetter(t.lastChar) THEN scanIdentifier(t)
    ELSE IF isDigit(t.lastChar) THEN scanNumber(t, FALSE)
    ELSE IF t.lastChar = Ord[":"] THEN scanBindVar(t)
    ELSE IF t.lastChar = EOFCHAR
    THEN Return([t EXCEPT !.lastChar = 0, !.Position = @ + 1], int(0), nil)
    ELSE ScanSwitch(next(t), t.lastChar)

\* the outer switch of Scan: t after the blanks
ScanDispatch(t) ==
    IF isLetter(t.lastChar) THEN scanIdentifier(t)
    ELSE IF isDigit(t.lastChar) THEN scanNumber(t, FALSE)
    ELSE IF t.lastChar = Ord[":"] THEN scanBindVar(t)
    ELSE ScanSwitch(next(t), t.lastChar)

\* Scan reading its first character
ScanStart(t) == IF t.lastChar = 0 THEN next(t) ELSE t

\* Scan testing ForceEOF only after the blanks are skipped
ScanLateForceEOF(t) ==
    IF t.ForceEOF
    THEN Return(skipBlank(ScanStart(t)), int(0), nil)
    ELSE ScanDispatch(skipBlank(ScanStart(t)))

Scan(t) ==
    IF t.ForceEOF
    THEN Return(t, int(0), nil)
    ELSE ScanDispatch(skipBlank(ScanStart(t)))

\* the loop of Lex with the test of AllowComments inverted
RECURSIVE LexLoopInverted(_)
LexLoopInverted(r) ==
    IF r.typ = COMMENT /\ r.t.AllowComments /\ ~r.t.panic
    THEN LexLoopInverted(Scan(r.t))
    ELSE r

\* Lex passing over one comment only
LexLoopOnce(r) ==
    IF r.typ = COMMENT /\ ~r.t.AllowComments /\ ~r.t.panic
    THEN Scan(r.t)
    ELSE r

\* the loop of Lex over the comments it does not return
RECURSIVE LexLoop(_)
LexLoop(r) ==
    IF r.typ = COMMENT /\ ~r.t.AllowComments /\ ~r.t.panic
    THEN LexLoop(Scan(r.t))
    ELSE r

\* Lex(lval): the tokenizer after it, the kind it returns, the text of the
\* token it returns, and what it assigns to lval.bytes (unset when it leaves
\* lval alone)
unset == [set |-> FALSE, isNil |-> TRUE, bytes |-> <<>>]
Assigned(val) == [set |-> TRUE, isNil |-> val.isNil, bytes |-> val.bytes]

\* the end of Lex: r is what the last Scan returned
LexEnd(r) ==
    [t |-> [r.t EXCEPT !.errorToken = r.val],
     typ |-> r.typ,
     val |-> r.val,
     lval |-> IF r.typ \in {ID, STRING_, NUMBER, VALUE_ARG, COMMENT}
              THEN Assigned(r.val)
              ELSE unset]

Lex(t) == LexEnd(LexLoop(Scan(t)))

\* Error printing the offset in the stream for the position
ErrorAtOffset(t, err) ==
    [t EXCEPT !.LastError =
        IF ~t.errorToken.isNil
        THEN err \o B(<<" ", "a", "t", " ", "p", "o", "s", "i", "t", "i", "o", "n", " ">>)
                 \o Itoa(t.InStream)
                 \o B(<<" ", "n", "e", "a", "r", " ">>) \o t.errorToken.bytes
        ELSE err \o B(<<" ", "a", "t", " ", "p", "o", "s", "i", "t", "i", "o", "n", " ">>)
                 \o Itoa(t.InStream)]

Error(t, err) ==
    [t EXCEPT !.LastError =
        IF ~t.errorToken.isNil
        THEN err \o B(<<" ", "a", "t", " ", "p", "o", "s", "i", "t", "i", "o", "n", " ">>)
                 \o Itoa(t.Position)
                 \o B(<<" ", "n", "e", "a", "r", " ">>) \o t.errorToken.bytes
        ELSE err \o B(<<" ", "a", "t", " ", "p", "o", "s", "i", "t", "i", "o", "n", " ">>)
                 \o Itoa(t.Position)]

NewStringTokenizer ==
    [InStream |-> 0, AllowComments |-> FALSE, ForceEOF |-> FALSE, lastChar |-> 0,
     Position |-> 0, errorToken |-> nil, LastError |-> <<>>, posVarIndex |-> 0,
     panic |-> FALSE]

(***************************************************************************)
(* The state machine: one action per call the parser makes.  ret records   *)
(* the last call: its name, the kind and text it produced, what it        *)
(* assigned to lval.bytes, and the tokenizer it was called on.             *)
(***************************************************************************)
\* the messages the parser reports
Messages == {B(<<"s", "y", "n", "t", "a", "x", " ", "e", "r", "r", "o", "r">>)}

\* all byte strings over alphabet A of length at most n
Words(A, n) == UNION {[1..k -> A] : k \in 0..n}

InitOver(inputs) ==
    /\ sql \in inputs
    /\ \E allow \in BOOLEAN :
           tkn = [NewStringTokenizer EXCEPT !.AllowComments = allow]
    /\ ret = [op |-> "new", typ |-> int(0), val |-> nil, lval |-> unset,
              pre |-> NewStringTokenizer]

\* pulls are modelled until Position has run MaxPastEOF past the input
CanPull == ~tkn.panic /\ tkn.Position <= Len(sql) + MaxPastEOF

\* the call op returns r: r.t is the tokenizer after it
Returns(op, r, val, lval) ==
    /\ tkn' = r.t
    /\ ret' = [op |-> IF r.t.panic THEN "panic" ELSE op,
               typ |-> r.typ, val |-> val, lval |-> lval, pre |-> tkn]

ScanReturns(r) == Returns("Scan", r, r.val, unset)

LexReturns(r) == Returns("Lex", r, r.val, r.lval)

CallScan ==
    /\ CanPull
    /\ ScanReturns(Scan(tkn))
    /\ UNCHANGED sql

CallLex ==
    /\ CanPull
    /\ LexReturns(Lex(tkn))
    /\ UNCHANGED sql

CallError ==
    /\ ~tkn.panic
    /\ \E err \in Messages :
           /\ tkn' = Error(tkn, err)
           /\ ret' = [ret EXCEPT !.op = "Error", !.pre = tkn]
    /\ UNCHANGED sql

\* the parser truncates the input: it sets the exported field ForceEOF
SetForceEOF ==
    /\ ~tkn.panic
    /\ ~tkn.ForceEOF
    /\ tkn' = [tkn EXCEPT !.ForceEOF = TRUE]
    /\ ret' = [ret EXCEPT !.op = "SetForceEOF", !.pre = tkn]
    /\ UNCHANGED sql

NextStep == CallScan \/ CallLex \/ CallError \/ SetForceEOF

\* the calls that scan: Error writes LastError only, which no call reads
NextScan == CallScan \/ CallLex \/ SetForceEOF

(***************************************************************************)
(* The inputs.  Every specification starts from a fresh tokenizer on one   *)
(* input; the specifications differ in the alphabet the input is over.     *)
(***************************************************************************)
MixedAlphabet == {Ord["a"], Ord["?"], Ord["'"], Ord["/"], Ord["*"], Ord[" "]}

CommentAlphabet == {Ord["/"], Ord["*"], Ord["-"], LF}

NumberAlphabet == {Ord["0"], Ord["8"], Ord["."], Ord["e"], Ord["x"], Ord["-"]}

UpperNumberAlphabet == {Ord["0"], Ord["7"], Ord["9"], Ord["E"], Ord["X"]}

StringAlphabet == {Ord["'"], Ord["\""], Ord["\\"], Ord["n"], Ord["backtick"]}

BindAlphabet == {Ord["?"], Ord[":"], Ord["v"], Ord["1"]}

IdentAlphabet == {Ord["a"], Ord["A"], Ord["s"], Ord["S"], Ord["1"]}

ByteAlphabet == {0, 255, Ord["#"], Ord["a"], Ord[" "]}

CommentInputs == Words(CommentAlphabet, MaxLen)
NumberInputs == Words(NumberAlphabet, MaxShort) \cup Words(UpperNumberAlphabet, MaxShort)
StringInputs == Words(StringAlphabet, MaxShort)
\* the inputs over the bind alphabet, and the runs of ten and more placeholders
BindInputs ==
    Words(BindAlphabet, MaxLen) \cup {[i \in 1..k |-> Ord["?"]] : k \in 10..MaxRun}
IdentInputs == Words(IdentAlphabet, MaxShort)
ByteInputs == Words(ByteAlphabet, MaxShort)

Init == InitOver(Words(MixedAlphabet, MaxMixed))
Spec == Init /\ [][NextStep]_vars

InitComment == InitOver(CommentInputs)
SpecComment == InitComment /\ [][NextScan]_vars

InitNumber == InitOver(NumberInputs)
SpecNumber == InitNumber /\ [][NextScan]_vars

InitString == InitOver(StringInputs)
SpecString == InitString /\ [][NextScan]_vars

InitBind == InitOver(BindInputs)
SpecBind == InitBind /\ [][NextScan]_vars

InitIdent == InitOver(IdentInputs)
SpecIdent == InitIdent /\ [][NextScan]_vars

InitByte == InitOver(ByteInputs)
SpecByte == InitByte /\ [][NextScan]_vars

\* the sub-scanners that call Next(buffer): numbers and comments
InitSub == InitOver(NumberInputs \cup CommentInputs)
SpecSub == InitSub /\ [][NextScan]_vars

\* the constructs that have a closing delimiter: strings and block comments
InitDelim == InitOver(StringInputs \cup CommentInputs)
SpecDelim == InitDelim /\ [][NextScan]_vars

(***************************************************************************)
(* What the claims speak of, read off the input alone.                     *)
(***************************************************************************)
\* a pull: a call of Scan or Lex that returned
Pulled == ret.op \in {"Scan", "Lex"}

IsBlank(c) == c \in {Ord[" "], TAB, LF, CR}

\* the index in sql of the next unconsumed character of t (Len(sql) + 1 at
\* end of input)
NextUnconsumed(t) ==
    IF t.lastChar = EOFCHAR THEN Len(sql) + 1
    ELSE IF t.InStream = 0 THEN 1
    ELSE t.InStream

\* the first index from i on that holds no blank
RECURSIVE SkipBlanks(_)
SkipBlanks(i) == IF i <= Len(sql) /\ IsBlank(sql[i]) THEN SkipBlanks(i + 1) ELSE i

\* where the token of a pull on t starts
TokenStart(t) == SkipBlanks(NextUnconsumed(t))

\* the character at index i, EOFCHAR past the end
CharAt(i) == IF i <= Len(sql) THEN sql[i] ELSE EOFCHAR

\* the input from index i to index j
Slice(i, j) == [k \in 1..(j - i + 1) |-> sql[i + k - 1]]

\* the index of the delimiter that closes a string whose content starts at j,
\* 0 when there is none: a doubled delimiter and a backslash with the character
\* after it are content
RECURSIVE StrClose(_, _)
StrClose(j, d) ==
    IF j > Len(sql) THEN 0
    ELSE IF sql[j] = d
    THEN IF CharAt(j + 1) = d THEN StrClose(j + 2, d) ELSE j
    ELSE IF sql[j] = Ord["\\"]
    THEN StrClose(j + 2, d)
    ELSE StrClose(j + 1, d)

\* a block comment opens at i, and the indices its terminator may start at
BlockOpensAt(i) == CharAt(i) = Ord["/"] /\ CharAt(i + 1) = Ord["*"]
BlockEnds(i) ==
    {k \in (i + 2)..Len(sql) : sql[k] = Ord["*"] /\ CharAt(k + 1) = Ord["/"]}

Quotes == {Ord["'"], Ord["\""], Ord["backtick"]}

\* a pull on t starts at a string, identifier or block comment that the input
\* never closes
UnterminatedAt(t) ==
    LET i == TokenStart(t)
    IN  /\ ~t.ForceEOF
        /\ \/ CharAt(i) \in Quotes /\ StrClose(i + 1, sql[i]) = 0
           \/ BlockOpensAt(i) /\ BlockEnds(i) = {}

(***************************************************************************)
(* C1: Next(buffer) is never called at end of input: no input and no       *)
(* sequence of Scan and Lex calls reaches the panic.                       *)
(***************************************************************************)
C1_NoPanic == ~tkn.panic /\ ret.op # "panic"

\* a number whose exponent sign is the last character of the input
C1_Witness ==
    /\ ret.op = "Scan"
    /\ ret.typ = NUMBER
    /\ tkn.lastChar = EOFCHAR
    /\ ret.val.bytes[Len(ret.val.bytes)] = Ord["-"]

(***************************************************************************)
(* C2: a pull that starts at a string, a backtick identifier or a block    *)
(* comment the input never closes returns LEX_ERROR, and the pull after it *)
(* returns end of input.                                                   *)
(***************************************************************************)
C2_UnterminatedFailsClosed ==
    (Pulled /\ UnterminatedAt(ret.pre)) =>
        /\ ret.typ = LEX_ERROR
        /\ Scan(tkn).typ = int(0) /\ Scan(tkn).val = nil
        /\ Lex(tkn).typ = int(0)

\* a string that ends the input on a backslash
C2_Witness ==
    /\ Pulled /\ UnterminatedAt(ret.pre)
    /\ sql[TokenStart(ret.pre)] \in Quotes
    /\ sql[Len(sql)] = Ord["\\"]
    /\ Len(sql) > TokenStart(ret.pre) + 1

(***************************************************************************)
(* C3: the i-th placeholder ? of the input yields VALUE_ARG with text :v   *)
(* and the decimal numeral of i, and posVarIndex counts the placeholders   *)
(* consumed so far, whatever other tokens lie between them.  (Over the     *)
(* bind alphabet every ? is a token of its own.)                           *)
(***************************************************************************)
\* how many of the first i characters are placeholders
RECURSIVE CountPlaceholders(_)
CountPlaceholders(i) ==
    IF i = 0 THEN 0
    ELSE CountPlaceholders(i - 1) + (IF sql[i] = Ord["?"] THEN 1 ELSE 0)

\* the number a decimal numeral denotes
RECURSIVE NumeralValue(_)
NumeralValue(d) ==
    IF Len(d) = 0 THEN 0
    ELSE 10 * NumeralValue(SubSeq(d, 1, Len(d) - 1)) + (d[Len(d)] - Ord["0"])

\* text is :v followed by the decimal numeral of n
IsPlaceholderName(text, n) ==
    /\ Len(text) >= 3
    /\ text[1] = Ord[":"] /\ text[2] = Ord["v"]
    /\ \A k \in 3..Len(text) : isDigit(text[k])
    /\ (Len(text) > 3 => text[3] # Ord["0"])
    /\ NumeralValue(SubSeq(text, 3, Len(text))) = n

C3_PlaceholderNumbering ==
    /\ tkn.posVarIndex = CountPlaceholders(NextUnconsumed(tkn) - 1)
    /\ (Pulled /\ ~ret.pre.ForceEOF /\ CharAt(TokenStart(ret.pre)) = Ord["?"]) =>
           /\ ret.typ = VALUE_ARG
           /\ ~ret.val.isNil
           /\ IsPlaceholderName(ret.val.bytes,
                                CountPlaceholders(TokenStart(ret.pre)))

\* the second placeholder, after a named one
C3_Witness ==
    /\ ret.op = "Scan"
    /\ ret.val = Bytes(B(<<":", "v", "2">>))
    /\ CharAt(TokenStart(ret.pre)) = Ord["?"]
    /\ \E j \in 1..TokenStart(ret.pre) : sql[j] = Ord[":"]

(***************************************************************************)
(* C4: a Scan or Lex call made with ForceEOF set returns end of input with *)
(* nil text and consumes nothing: the stream, lastChar, Position and       *)
(* posVarIndex are as before the call.                                     *)
(***************************************************************************)
C4_ForceEOF ==
    (Pulled /\ ret.pre.ForceEOF) =>
        /\ ret.typ = int(0)
        /\ ret.val = nil
        /\ tkn.ForceEOF
        /\ tkn.InStream = ret.pre.InStream
        /\ tkn.lastChar = ret.pre.lastChar
        /\ tkn.Position = ret.pre.Position
        /\ tkn.posVarIndex = ret.pre.posVarIndex

\* a forced end of input with a token still to be read
C4_Witness ==
    /\ Pulled /\ ret.pre.ForceEOF
    /\ TokenStart(tkn) <= Len(sql)
    /\ tkn.Position > 0

(***************************************************************************)
(* C5: Position is the number of input characters read so far, and so      *)
(* never exceeds the length of the input.                                  *)
(***************************************************************************)
C5_PositionCountsCharacters ==
    /\ tkn.Position = tkn.InStream
    /\ tkn.Position <= Len(sql)

(***************************************************************************)
(* C6: with AllowComments false Lex never returns COMMENT; with            *)
(* AllowComments true a pull that starts at //, at -- or at a terminated   *)
(* block comment returns COMMENT with the text of the comment: the prefix  *)
(* and what follows it through the end of the line, the end of the input   *)
(* or the terminator.                                                      *)
(***************************************************************************)
Min(S) == CHOOSE x \in S : \A y \in S : x <= y
Max(S) == CHOOSE x \in S : \A y \in S : x >= y

LineCommentAt(i) ==
    \/ CharAt(i) = Ord["/"] /\ CharAt(i + 1) = Ord["/"]
    \/ CharAt(i) = Ord["-"] /\ CharAt(i + 1) = Ord["-"]

CommentAt(i) == LineCommentAt(i) \/ (BlockOpensAt(i) /\ BlockEnds(i) # {})

\* the index of the last character of the comment that starts at i
CommentEnd(i) ==
    IF LineCommentAt(i)
    THEN Min({k \in (i + 2)..Len(sql) : sql[k] = LF} \cup {Len(sql)})
    ELSE Min(BlockEnds(i)) + 1

C6_CommentSuppression ==
    /\ (ret.op = "Lex" /\ ~ret.pre.AllowComments) => ret.typ # COMMENT
    /\ (Pulled /\ ret.pre.AllowComments /\ ~ret.pre.ForceEOF
               /\ CommentAt(TokenStart(ret.pre))) =>
           LET i == TokenStart(ret.pre)
           IN  /\ ret.typ = COMMENT
               /\ ret.val = Bytes(Slice(i, CommentEnd(i)))
               /\ NextUnconsumed(tkn) = CommentEnd(i) + 1
               /\ (ret.op = "Lex" => ret.lval = Assigned(ret.val))

\* Lex steps over a comment and returns the operator after it
C6_Witness ==
    /\ ret.op = "Lex" /\ ~ret.pre.AllowComments /\ ~ret.pre.ForceEOF
    /\ CommentAt(TokenStart(ret.pre))
    /\ ret.typ = int(Ord["*"])

(***************************************************************************)
(* C7: a pull that starts at a letter, _ or @ takes the run of letters and *)
(* digits that follows; when the lower-cased run is a keyword it returns   *)
(* the keyword's kind with the lower-cased text, whatever the case of the  *)
(* input, and otherwise ID with the run as written.                        *)
(***************************************************************************)
UpperCase ==
    <<"A", "B", "C", "D", "E", "F", "G", "H", "I", "J", "K", "L", "M",
      "N", "O", "P", "Q", "R", "S", "T", "U", "V", "W", "X", "Y", "Z">>
LowerCase ==
    <<"a", "b", "c", "d", "e", "f", "g", "h", "i", "j", "k", "l", "m",
      "n", "o", "p", "q", "r", "s", "t", "u", "v", "w", "x", "y", "z">>

Digits == {Ord[c] : c \in {"0", "1", "2", "3", "4", "5", "6", "7", "8", "9"}}
Letters ==
    {Ord[UpperCase[k]] : k \in 1..26} \cup {Ord[LowerCase[k]] : k \in 1..26}
        \cup {Ord["_"], Ord["@"]}

LowerOf(c) ==
    IF \E k \in 1..26 : Ord[UpperCase[k]] = c
    THEN Ord[LowerCase[CHOOSE k \in 1..26 : Ord[UpperCase[k]] = c]]
    ELSE c

\* the last index of the run of letters and digits that starts at i
IdentRunEnd(i) ==
    Max({e \in i..Len(sql) : \A k \in (i + 1)..e : sql[k] \in Letters \cup Digits})

C7_KeywordCase ==
    (Pulled /\ ~ret.pre.ForceEOF /\ CharAt(TokenStart(ret.pre)) \in Letters) =>
        LET i == TokenStart(ret.pre)
            run == Slice(i, IdentRunEnd(i))
            lowered == [k \in 1..Len(run) |-> LowerOf(run[k])]
        IN  /\ NextUnconsumed(tkn) = IdentRunEnd(i) + 1
            /\ IF \E e \in keywordEntries : e[1] = lowered
               THEN /\ ret.typ = Tok((CHOOSE e \in keywordEntries : e[1] = lowered)[2])
                    /\ ret.val = Bytes(lowered)
               ELSE /\ ret.typ = ID
                    /\ ret.val = Bytes(run)

\* the keyword as written aS
C7_Witness ==
    /\ ret.op = "Scan"
    /\ ret.typ = Tok("AS")
    /\ Slice(TokenStart(ret.pre), TokenStart(ret.pre) + 1) = B(<<"a", "S">>)

(***************************************************************************)
(* C8: a pull that starts at a 0 not followed by x or X takes the run of   *)
(* digits; when the run holds an 8 or a 9 and the character after it is    *)
(* none of . e E the pull returns LEX_ERROR with the run, and otherwise it *)
(* returns one NUMBER that starts with the run.                            *)
(***************************************************************************)
\* the last index of the run of digits that starts at i
DigitRunEnd(i) == Max({e \in i..Len(sql) : \A k \in i..e : sql[k] \in Digits})

C8_IllegalOctal ==
    (Pulled /\ ~ret.pre.ForceEOF
            /\ CharAt(TokenStart(ret.pre)) = Ord["0"]
            /\ CharAt(TokenStart(ret.pre) + 1) \notin {Ord["x"], Ord["X"]}) =>
        LET i == TokenStart(ret.pre)
            e == DigitRunEnd(i)
            n == e - i + 1
        IN  IF /\ \E k \in i..e : sql[k] \in {Ord["8"], Ord["9"]}
               /\ CharAt(e + 1) \notin {Ord["."], Ord["e"], Ord["E"]}
            THEN /\ ret.typ = LEX_ERROR
                 /\ ret.val = Bytes(Slice(i, e))
                 /\ NextUnconsumed(tkn) = e + 1
            ELSE /\ ret.typ = NUMBER
                 /\ ~ret.val.isNil
                 /\ Len(ret.val.bytes) >= n
                 /\ SubSeq(ret.val.bytes, 1, n) = Slice(i, e)
                 /\ NextUnconsumed(tkn) = i + Len(ret.val.bytes)

\* an octal-looking run with an 8 in it that a decimal point makes a float
C8_Witness ==
    /\ ret.op = "Scan"
    /\ ret.typ = NUMBER
    /\ Len(ret.val.bytes) >= 3
    /\ SubSeq(ret.val.bytes, 1, 3) = B(<<"0", "8", ".">>)

(***************************************************************************)
(* C9: a pull that starts at ' or " with its closing delimiter in the      *)
(* input returns STRING with the content decoded: a doubled delimiter is   *)
(* one delimiter, a backslash and a character are the byte the escape      *)
(* table gives for the character, or the character itself; the string ends *)
(* at the first delimiter that is neither doubled nor escaped.             *)
(***************************************************************************)
EscapeOf(c) == IF SQLDecodeMap[c] = DONTESCAPE THEN c ELSE SQLDecodeMap[c]

\* the decoded content from index j up to the closing delimiter at close
RECURSIVE Decoded(_, _, _)
Decoded(j, close, d) ==
    IF j >= close THEN <<>>
    ELSE IF sql[j] = d THEN <<d>> \o Decoded(j + 2, close, d)
    ELSE IF sql[j] = Ord["\\"] THEN <<EscapeOf(sql[j + 1])>> \o Decoded(j + 2, close, d)
    ELSE <<sql[j]>> \o Decoded(j + 1, close, d)

C9_StringDecoding ==
    (Pulled /\ ~ret.pre.ForceEOF
            /\ CharAt(TokenStart(ret.pre)) \in {Ord["'"], Ord["\""]}
            /\ StrClose(TokenStart(ret.pre) + 1, CharAt(TokenStart(ret.pre))) # 0) =>
        LET i == TokenStart(ret.pre)
            close == StrClose(i + 1, sql[i])
        IN  /\ ret.typ = STRING_
            /\ ret.val = Bytes(Decoded(i + 1, close, sql[i]))
            /\ NextUnconsumed(tkn) = close + 1

\* a string whose content is an escaped newline
C9_Witness ==
    /\ ret.op = "Scan"
    /\ ret.typ = STRING_
    /\ ret.val = Bytes(<<LF>>)

(***************************************************************************)
(* C10: a pull whose next unconsumed character is a byte the scanner has   *)
(* no token for returns LEX_ERROR with that byte as its text and consumes  *)
(* that byte alone.                                                        *)
(***************************************************************************)
Recognized ==
    {Ord[" "], TAB, CR, LF} \cup Letters \cup Digits
        \cup {Ord[c] : c \in {":", "=", ",", ";", "(", ")", "+", "*", "%", "&", "|",
                              "^", "~", "?", ".", "/", "-", "<", ">", "!", "'", "\"",
                              "backtick"}}

C10_UnrecognizedReported ==
    (Pulled /\ ~ret.pre.ForceEOF
            /\ NextUnconsumed(ret.pre) <= Len(sql)
            /\ sql[NextUnconsumed(ret.pre)] \notin Recognized) =>
        /\ ret.typ = LEX_ERROR
        /\ ret.val = Bytes(<<sql[NextUnconsumed(ret.pre)]>>)
        /\ NextUnconsumed(tkn) = NextUnconsumed(ret.pre) + 1

(***************************************************************************)
(* C11: the operators are matched longest first.  A pull that starts at    *)
(* <=> returns NULL_SAFE_EQUAL, at <= LE, at <> NE, at >= GE and at != NE, *)
(* and consumes those characters alone; any other < or > is the token of   *)
(* the one character; a ! that no = follows is LEX_ERROR with text ! and   *)
(* the character after it stays unconsumed.                                *)
(***************************************************************************)
OperatorAlphabet == {Ord["<"], Ord["="], Ord[">"], Ord["!"]}

InitOperator == InitOver(Words(OperatorAlphabet, MaxLen))
SpecOperator == InitOperator /\ [][NextScan]_vars

\* the pull returned kind typ with text val and consumed n characters from i
Took(i, n, typ, val) ==
    /\ ret.typ = typ
    /\ ret.val = val
    /\ NextUnconsumed(tkn) = i + n

C11_OperatorLongestMatch ==
    (Pulled /\ ~ret.pre.ForceEOF) =>
        LET i == TokenStart(ret.pre)
            c1 == CharAt(i)
            c2 == CharAt(i + 1)
            c3 == CharAt(i + 2)
        IN  /\ (c1 = Ord["<"] /\ c2 = Ord["="] /\ c3 = Ord[">"])
                   => Took(i, 3, NULL_SAFE_EQUAL, nil)
            /\ (c1 = Ord["<"] /\ c2 = Ord["="] /\ c3 # Ord[">"]) => Took(i, 2, LE, nil)
            /\ (c1 = Ord["<"] /\ c2 = Ord[">"]) => Took(i, 2, NE, nil)
            /\ (c1 = Ord[">"] /\ c2 = Ord["="]) => Took(i, 2, GE, nil)
            /\ (c1 = Ord["!"] /\ c2 = Ord["="]) => Took(i, 2, NE, nil)
            /\ (c1 = Ord["<"] /\ c2 \notin {Ord["="], Ord[">"]})
                   => Took(i, 1, int(Ord["<"]), nil)
            /\ (c1 = Ord[">"] /\ c2 # Ord["="]) => Took(i, 1, int(Ord[">"]), nil)
            /\ (c1 = Ord["!"] /\ c2 # Ord["="])
                   => Took(i, 1, LEX_ERROR, Bytes(B(<<"!">>)))

\* <=> after another token, with input left after it
C11_Witness ==
    /\ ret.op = "Scan"
    /\ ret.typ = NULL_SAFE_EQUAL
    /\ TokenStart(ret.pre) > 1
    /\ NextUnconsumed(tkn) <= Len(sql)

(***************************************************************************)
(* C12: the end of the input is sticky.  A pull that returns kind 0        *)
(* because the input is exhausted leaves lastChar at EOFCHAR, and every    *)
(* pull made with lastChar at EOFCHAR returns kind 0 with nil text, keeps  *)
(* lastChar at EOFCHAR and leaves posVarIndex as it was, so every later    *)
(* Scan or Lex call returns end of input again.                            *)
(***************************************************************************)
C12_EOFSticky ==
    Pulled =>
        /\ (ret.typ = int(0) /\ ~ret.pre.ForceEOF)
               => (ret.val = nil /\ tkn.lastChar = EOFCHAR)
        /\ ret.pre.lastChar = EOFCHAR
               => /\ ret.typ = int(0)
                  /\ ret.val = nil
                  /\ tkn.lastChar = EOFCHAR
                  /\ tkn.posVarIndex = ret.pre.posVarIndex

\* a second Lex call at the end of an input that held placeholders
C12_Witness ==
    /\ ret.op = "Lex"
    /\ ~ret.pre.ForceEOF
    /\ ret.typ = int(0)
    /\ ret.pre.lastChar = EOFCHAR
    /\ ret.pre.Position >= Len(sql) + 2
    /\ ret.pre.posVarIndex > 1

(***************************************************************************)
(* C13: Error(msg) sets LastError to msg, " at position ", the decimal     *)
(* numeral of Position and, when the token most recently returned by Lex   *)
(* carried text, " near " and that text; it changes nothing else of the    *)
(* tokenizer.  errorToken is nil before the first Lex call, every Lex call *)
(* sets it to the text of the token it returns (nil for an operator and    *)
(* for the end of the input), and no other call changes it.                *)
(***************************************************************************)
\* inputs long enough for Position to need two digits
LongInputs ==
    {[i \in 1..k |-> IF i % 2 = 1 THEN Ord["a"] ELSE Ord["="]] : k \in 9..MaxRun}

InitError == InitOver(Words(MixedAlphabet, MaxMixed) \cup LongInputs)
SpecError == InitError /\ [][NextStep]_vars

\* line is msg, " at position ", the numeral of pos and, for a token text that
\* is not nil, " near " and the text
IsErrorMessage(line, msg, pos, text) ==
    LET head == msg \o B(<<" ", "a", "t", " ", "p", "o", "s", "i", "t", "i", "o", "n", " ">>)
        tail == IF text.isNil THEN <<>>
                ELSE B(<<" ", "n", "e", "a", "r", " ">>) \o text.bytes
        n == Len(line) - Len(head) - Len(tail)
        numeral == SubSeq(line, Len(head) + 1, Len(head) + n)
    IN  /\ n >= 1
        /\ line = head \o numeral \o tail
        /\ \A k \in 1..n : numeral[k] \in Digits
        /\ (n > 1 => numeral[1] # Ord["0"])
        /\ NumeralValue(numeral) = pos

C13_ErrorReport ==
    /\ ret.op = "new" => tkn.errorToken = nil
    /\ ret.op = "Lex" =>
           /\ tkn.errorToken = ret.val
           /\ (~ret.typ.named \/ ret.typ \in {NE, LE, GE, NULL_SAFE_EQUAL})
                  => ret.val = nil
    /\ ret.op \in {"Scan", "Error", "SetForceEOF"} =>
           tkn.errorToken = ret.pre.errorToken
    /\ ret.op = "Error" =>
           /\ tkn = [ret.pre EXCEPT !.LastError = tkn.LastError]
           /\ \E msg \in Messages :
                  IsErrorMessage(tkn.LastError, msg, ret.pre.Position,
                                 ret.pre.errorToken)

\* Error after Lex returned a token with text and Scan moved Position to 10 or
\* beyond
C13_Witness ==
    /\ ret.op = "Error"
    /\ ~tkn.errorToken.isNil
    /\ tkn.Position >= 10
    /\ tkn.Position <= Len(sql)
    /\ ret.typ = int(Ord["="])

\* Error when the last token of Lex had no text
C13_WitnessNoText ==
    /\ ret.op = "Error"
    /\ tkn.errorToken.isNil
    /\ ret.typ = int(Ord["/"])
    /\ tkn.Position > 1

(***************************************************************************)
(* C14: the text of a NUMBER token is the source it consumed.  A pull that *)
(* returns NUMBER returns the input from the first character after the     *)
(* leading blanks to the last character it consumed, unchanged, whether    *)
(* the literal is hexadecimal, octal, decimal, has a fraction or an        *)
(* exponent, or starts with the decimal point.                             *)
(***************************************************************************)
LiteralAlphabet == {Ord[" "], Ord["1"], Ord["."], Ord["e"], Ord["+"]}

\* 0x1A, 3.14e-2 and .5 after a blank
LiteralExamples ==
    {B(<<"0", "x", "1", "A">>), B(<<"3", ".", "1", "4", "e", "-", "2">>),
     B(<<" ", ".", "5">>)}

InitLiteral ==
    InitOver(NumberInputs \cup Words(LiteralAlphabet, MaxShort) \cup LiteralExamples)
SpecLiteral == InitLiteral /\ [][NextScan]_vars

C14_NumberText ==
    (Pulled /\ ret.typ = NUMBER) =>
        /\ ~ret.val.isNil
        /\ Len(ret.val.bytes) >= 1
        /\ ret.val.bytes = Slice(TokenStart(ret.pre), NextUnconsumed(tkn) - 1)

\* the leading-dot form with an exponent, after blanks or another token
C14_Witness ==
    /\ ret.op = "Scan"
    /\ ret.typ = NUMBER
    /\ Len(ret.val.bytes) >= 3
    /\ ret.val.bytes[1] = Ord["."]
    /\ ret.val.bytes[3] \in {Ord["e"], Ord["E"]}
    /\ TokenStart(ret.pre) > 1

(***************************************************************************)
(* C15: a pull that starts at a colon consumes the colon and the longest   *)
(* run of letters, _, @, digits and dots after it.  With an empty run it   *)
(* returns LEX_ERROR with text ":", otherwise VALUE_ARG with the colon and *)
(* the run as text; posVarIndex stays as it was.                           *)
(***************************************************************************)
NamedAlphabet == {Ord[":"], Ord["@"], Ord["1"], Ord["."], Ord["?"], Ord[" "]}

InitNamed == InitOver(Words(NamedAlphabet, MaxShort))
SpecNamed == InitNamed /\ [][NextScan]_vars

\* the last index of the run of name characters after the colon at i
NameRunEnd(i) ==
    Max({e \in i..Len(sql) :
             \A k \in (i + 1)..e : sql[k] \in Letters \cup Digits \cup {Ord["."]}})

C15_NamedBindVar ==
    (Pulled /\ ~ret.pre.ForceEOF /\ CharAt(TokenStart(ret.pre)) = Ord[":"]) =>
        LET i == TokenStart(ret.pre)
            e == NameRunEnd(i)
        IN  /\ NextUnconsumed(tkn) = e + 1
            /\ ret.typ = (IF e = i THEN LEX_ERROR ELSE VALUE_ARG)
            /\ ret.val = Bytes(Slice(i, e))
            /\ tkn.posVarIndex = ret.pre.posVarIndex

\* a name with a dot in it, after a placeholder, with input left after it
C15_Witness ==
    /\ ret.op = "Scan"
    /\ ret.typ = VALUE_ARG
    /\ ret.pre.posVarIndex = 1
    /\ CharAt(TokenStart(ret.pre)) = Ord[":"]
    /\ \E k \in 2..Len(ret.val.bytes) : ret.val.bytes[k] = Ord["."]
    /\ NextUnconsumed(tkn) <= Len(sql)

\* a colon with no name after it
C15_WitnessError ==
    /\ ret.op = "Scan"
    /\ ret.typ = LEX_ERROR
    /\ CharAt(TokenStart(ret.pre)) = Ord[":"]
    /\ ret.pre.posVarIndex = 1

(***************************************************************************)
(* C16: a pull that starts at a backtick whose closing backtick is in the  *)
(* input returns ID with the content decoded as the content of a string    *)
(* is: a doubled backtick is one backtick, a backslash and a character are *)
(* the byte the escape table gives.  The text keeps its case and the kind  *)
(* is ID also when the content spells a keyword.                           *)
(***************************************************************************)
QuotedAlphabet == {Ord["backtick"], Ord["A"], Ord["s"], Ord["\\"]}

\* Select between backticks
QuotedExamples ==
    {<<Ord["backtick"]>> \o B(<<"S", "e", "l", "e", "c", "t">>) \o <<Ord["backtick"]>>}

InitQuoted == InitOver(Words(QuotedAlphabet, MaxLen) \cup QuotedExamples)
SpecQuoted == InitQuoted /\ [][NextScan]_vars

C16_BacktickIdentifier ==
    (Pulled /\ ~ret.pre.ForceEOF
            /\ CharAt(TokenStart(ret.pre)) = Ord["backtick"]
            /\ StrClose(TokenStart(ret.pre) + 1, Ord["backtick"]) # 0) =>
        LET i == TokenStart(ret.pre)
            close == StrClose(i + 1, Ord["backtick"])
        IN  /\ ret.typ = ID
            /\ ret.val = Bytes(Decoded(i + 1, close, Ord["backtick"]))
            /\ NextUnconsumed(tkn) = close + 1

\* a quoted identifier that spells a keyword with a capital in it
C16_Witness ==
    /\ ret.op = "Lex"
    /\ ret.typ = ID
    /\ CharAt(TokenStart(ret.pre)) = Ord["backtick"]
    /\ ~ret.val.isNil
    /\ \E k \in 1..Len(ret.val.bytes) : ret.val.bytes[k] # LowerOf(ret.val.bytes[k])
    /\ [k \in 1..Len(ret.val.bytes) |-> LowerOf(ret.val.bytes[k])]
           \in {e[1] : e \in keywordEntries}
    /\ ret.lval = Assigned(ret.val)

(***************************************************************************)
(* C17: the names of the placeholders do not collide.  The text of a       *)
(* VALUE_ARG token that a pull makes from a ? differs from the text of     *)
(* every other VALUE_ARG token of the scan of the input: from the name     *)
(* made for every other ?, and from every named placeholder written in the *)
(* input.                                                                  *)
(***************************************************************************)
\* the indices of the input, other than i, at which a named placeholder and a ?
\* start: the inputs of the bind alphabet have no string and no comment, so a
\* token starts at every colon and at every ?
NamedStarts == {k \in 1..Len(sql) : sql[k] = Ord[":"] /\ NameRunEnd(k) > k}
OtherPlaceholders(i) == {k \in 1..Len(sql) : sql[k] = Ord["?"] /\ k # i}

C17_PlaceholderNamesUnique ==
    (Pulled /\ ~ret.pre.ForceEOF
            /\ CharAt(TokenStart(ret.pre)) = Ord["?"]
            /\ ret.typ = VALUE_ARG) =>
        /\ \A k \in OtherPlaceholders(TokenStart(ret.pre)) :
               ~IsPlaceholderName(ret.val.bytes, CountPlaceholders(k))
        /\ \A k \in NamedStarts : ret.val.bytes # Slice(k, NameRunEnd(k))

(***************************************************************************)
(* C18: progress and termination.  A pull that starts with input left      *)
(* consumes at least one character of it, whatever it returns, and a pull  *)
(* that starts with no input left returns the end of the input; so from    *)
(* every state the number of Scan calls up to and including the one that   *)
(* returns the end of the input is at most the number of characters left   *)
(* plus one: at most Len(sql) + 1 pulls on a new tokenizer.                *)
(***************************************************************************)
InitProgress == InitOver(ByteInputs \cup StringInputs \cup CommentInputs)
SpecProgress == InitProgress /\ [][NextScan]_vars

\* the number of Scan calls from t up to the one that returns the end of the
\* input, counted up to fuel calls; r is what the first of them returns
RECURSIVE PullsToEOF(_, _)
PullsAfter(r, fuel) ==
    IF r.typ = int(0) \/ r.t.panic \/ fuel = 0
    THEN 1
    ELSE 1 + PullsToEOF(r.t, fuel - 1)
PullsToEOF(t, fuel) == PullsAfter(Scan(t), fuel)

C18_Progress ==
    /\ (Pulled /\ ~ret.pre.ForceEOF /\ NextUnconsumed(ret.pre) <= Len(sql)) =>
           NextUnconsumed(tkn) > NextUnconsumed(ret.pre)
    /\ (Pulled /\ ~ret.pre.ForceEOF /\ NextUnconsumed(ret.pre) > Len(sql)) =>
           ret.typ = int(0)
    /\ ~tkn.panic =>
           PullsToEOF(tkn, Len(sql) + 1) <= Len(sql) + 2 - NextUnconsumed(tkn)

\* a pull that returns LEX_ERROR for an unterminated string or comment, after
\* another token
C18_Witness ==
    /\ ret.op = "Scan"
    /\ ret.typ = LEX_ERROR
    /\ UnterminatedAt(ret.pre)
    /\ TokenStart(ret.pre) > 1
    /\ NextUnconsumed(tkn) = Len(sql) + 1

(***************************************************************************)
(* C19: hiding the comments changes no other token.  A Lex call with       *)
(* AllowComments false returns the kind and the text that, from the same   *)
(* state with AllowComments true, Lex returns for the first token that is  *)
(* not a COMMENT, and leaves the tokenizer, Position and posVarIndex       *)
(* included, as those calls leave it.  Both runs start from the same       *)
(* state, so the tokens of the run without comments are the tokens of the  *)
(* run with comments with its COMMENT tokens deleted.                      *)
(***************************************************************************)
VisibleAlphabet == {Ord["/"], Ord["*"], Ord["?"], Ord["a"]}

InitVisible == InitOver(CommentInputs \cup Words(VisibleAlphabet, MaxLen))
SpecVisible == InitVisible /\ [][NextScan]_vars

\* what Lex returns for the first token from t that is not a COMMENT, when
\* comments are returned: r is what the first Lex call returns
RECURSIVE SkipComments(_)
SkipComments(r) ==
    IF r.typ = COMMENT /\ ~r.t.panic
    THEN SkipComments(Lex(r.t))
    ELSE r
LexVisible(t) == SkipComments(Lex([t EXCEPT !.AllowComments = TRUE]))

\* the Lex call returned what r holds, up to the flag
SameAsVisible(r) ==
    /\ ret.typ = r.typ
    /\ ret.val = r.val
    /\ ret.lval = r.lval
    /\ tkn = [r.t EXCEPT !.AllowComments = FALSE]

C19_CommentVisibility ==
    (ret.op = "Lex" /\ ~ret.pre.AllowComments) => SameAsVisible(LexVisible(ret.pre))

\* a placeholder returned by Lex after a comment it passed over
C19_Witness ==
    /\ ret.op = "Lex"
    /\ ~ret.pre.AllowComments
    /\ ~ret.pre.ForceEOF
    /\ CommentAt(TokenStart(ret.pre))
    /\ ret.typ = VALUE_ARG
    /\ tkn.posVarIndex = 1

====
